---- MODULE Spec2Model ----
(***************************************************************************)
(* RustyDataContainer (src/src/containers.rs): a C-ABI handle describing a *)
(* contiguous array (nitems, itemsize, capacity, dtype, is_owner,          *)
(* is_mutable, data) together with the operations that build, view,        *)
(* convert and destroy it.                                                 *)
(*                                                                         *)
(* The heap is a table of regions.  A region is a caller array (its        *)
(* lifetime belongs to the caller) or the buffer of a Rust Vec.  A pointer *)
(* to data is the index of its region; a pointer to a container is the     *)
(* index of its slot, and NULL is 0.                                       *)
(***************************************************************************)
EXTENDS Integers, Sequences, FiniteSets, TLC

----------------------------------------------------------------------------
(* Bounds of the model. *)

\* how many element types of the closed set the inputs are drawn from
NumTypes == 3
\* largest number of elements of an array the caller builds
MaxLen == 1
\* how many regions (caller arrays and Vec buffers) a run allocates
MaxRegions == 1
\* how many containers are alive at the same time
MaxHandles == 2
\* largest reserved capacity of a Vec beyond its length
MaxSpare == 1

----------------------------------------------------------------------------
(* types.rs: the element types, their tags and their sizes. *)

\* the Rust element types implementing ConversionType, in the order in which
\* the inputs of the model take them
RustTypes == << "f32", "u32", "u8", "f64", "u64", "i8", "i32", "i64" >>

Types == { RustTypes[i] : i \in { j \in 1..Len(RustTypes) : j <= NumTypes } }

MUTABILITY == { "NotMutable", "Mutable" }

get_dtype(T) ==
    CASE T = "f32" -> "Float32"
      [] T = "f64" -> "Float64"
      [] T = "u8"  -> "Unsigned8"
      [] T = "u32" -> "Unsigned32"
      [] T = "u64" -> "Unsigned64"
      [] T = "i8"  -> "Int8"
      [] T = "i32" -> "Int32"
      [] T = "i64" -> "Int64"

get_size(T) ==
    CASE T \in { "u8", "i8" }          -> 1
      [] T \in { "f32", "u32", "i32" } -> 4
      [] T \in { "f64", "u64", "i64" } -> 8

get_itemsize(dtype) ==
    CASE dtype \in { "Unsigned8", "Int8" }               -> 1
      [] dtype \in { "Float32", "Unsigned32", "Int32" }  -> 4
      [] dtype \in { "Float64", "Unsigned64", "Int64" }  -> 8

\* assert_dtype::<T>(dtype): TRUE when the assertion passes
assert_dtype(T, dtype) == dtype = get_dtype(T)

----------------------------------------------------------------------------
(* Values of the model. *)

NULL == 0

NoHandle == [ none |-> "handle" ]

NoRegion == [ none |-> "region" ]

NoSlice == [ none |-> "slice" ]

NoRet == [ none |-> "ret" ]

NoVec == [ none |-> "vec" ]

\* element values: the zero the constructors fill with, and another value
Values == { 0, 1 }

Slots == 1..MaxHandles

RegionIds == 1..MaxRegions

SeqsUpTo(n) == UNION { [1..k -> Values] : k \in 0..n }

Zeros(n) == [ i \in 1..n |-> 0 ]

VARIABLES
    regions,   \* region id -> NoRegion or the region
    handles,   \* slot -> NoHandle or the RustyDataContainer stored there
    boxed,     \* the slots that are Box allocations (made by to_ptr)
    vecs,      \* the Vec values the caller holds
    last       \* the last call: operation, pointer, type, outcome, return

vars == << regions, handles, boxed, vecs, last >>

----------------------------------------------------------------------------
(* The allocator. *)

Live(r) == r \in RegionIds /\ regions[r] # NoRegion /\ regions[r].state = "live"

LiveRegions == { r \in RegionIds : Live(r) }

FreshRegions == { r \in RegionIds : regions[r] = NoRegion }

FreshRegion == CHOOSE r \in FreshRegions : \A q \in FreshRegions : r <= q

FreeSlots == { h \in Slots : handles[h] = NoHandle }

FreeSlot == CHOOSE h \in FreeSlots : \A q \in FreeSlots : h <= q

LiveSlots == { h \in Slots : handles[h] # NoHandle }

\* a new region: a caller array ("caller") or the buffer of a Vec ("vec"),
\* `cap` elements of T of which Len(elems) are initialised
NewRegion(kind, T, elems, cap) ==
    [ kind |-> kind, ty |-> T, elems |-> elems, cap |-> cap,
      state |-> "live", frees |-> 0, sized |-> TRUE ]

\* the deallocation a dropped Vec performs on its buffer of `bytes` bytes:
\* the memory is gone, and `sized` tells whether the size handed to the
\* allocator is the size the buffer was allocated with (a buffer of
\* capacity 0 holds no memory: its release is the end of its Vec)
dealloc(regs, r, bytes) ==
    [ regs EXCEPT ![r] =
        [ @ EXCEPT !.state = "released",
                   !.elems = << >>,
                   !.cap = 0,
                   !.frees = @ + 1,
                   !.sized = @ /\ (bytes = regs[r].cap * get_size(regs[r].ty)) ] ]

Call(op, ptr, T, outcome, ret) ==
    [ op |-> op, ptr |-> ptr, ty |-> T, outcome |-> outcome, ret |-> ret ]

\* a fault or an abort ends the process
Running == last.outcome \notin { "crash", "abort" }

----------------------------------------------------------------------------
(* impl RustyDataContainer *)

from_slice(T, r, len) ==
    [ nitems |-> len, capacity |-> len, itemsize |-> get_size(T),
      dtype |-> get_dtype(T), is_owner |-> "NotOwner",
      is_mutable |-> "NotMutable", data |-> r ]

from_slice_mut(T, r, len) ==
    [ nitems |-> len, capacity |-> len, itemsize |-> get_size(T),
      dtype |-> get_dtype(T), is_owner |-> "NotOwner",
      is_mutable |-> "Mutable", data |-> r ]

from_vec_shrunk(v) ==
    [ nitems |-> v.len, capacity |-> v.len, itemsize |-> get_size(v.ty),
      dtype |-> get_dtype(v.ty), is_owner |-> "Owner",
      is_mutable |-> "Mutable", data |-> v.data ]

from_vec(v) ==
    [ nitems |-> v.len, capacity |-> v.cap, itemsize |-> get_size(v.ty),
      dtype |-> get_dtype(v.ty), is_owner |-> "Owner",
      is_mutable |-> "Mutable", data |-> v.data ]

Vec(data, T, len, cap) == [ data |-> data, ty |-> T, len |-> len, cap |-> cap ]

\* to_vec::<T>(self): whether it returns, self as its drop sees it, the Vec
to_vec_keeps_owner(c, T) ==
    IF c.is_owner # "Owner" \/ ~assert_dtype(T, c.dtype)
    THEN [ ok |-> FALSE, self |-> c, vec |-> NoVec ]
    ELSE [ ok |-> TRUE, self |-> c,
           vec |-> Vec(c.data, T, c.nitems, c.capacity) ]

to_vec_any_owner(c, T) ==
    IF ~assert_dtype(T, c.dtype)
    THEN [ ok |-> FALSE, self |-> c, vec |-> NoVec ]
    ELSE [ ok |-> TRUE, self |-> [ c EXCEPT !.is_owner = "NotOwner" ],
           vec |-> Vec(c.data, T, c.nitems, c.capacity) ]

to_vec(c, T) ==
    IF c.is_owner # "Owner"
    THEN [ ok |-> FALSE, self |-> c, vec |-> NoVec ]
    ELSE IF ~assert_dtype(T, c.dtype)
    THEN [ ok |-> FALSE, self |-> c, vec |-> NoVec ]
    ELSE [ ok |-> TRUE, self |-> [ c EXCEPT !.is_owner = "NotOwner" ],
           vec |-> Vec(c.data, T, c.nitems, c.capacity) ]

\* leak(ptr): ptr.as_ref().unwrap()
leak(ptr) ==
    IF ptr = NULL
    THEN [ ok |-> FALSE, c |-> NoHandle ]
    ELSE [ ok |-> TRUE, c |-> handles[ptr] ]

\* leak_mut(ptr): ptr.as_mut().unwrap(), then the assertion on is_mutable
leak_mut(ptr) ==
    IF ptr = NULL
    THEN [ ok |-> FALSE, c |-> NoHandle ]
    ELSE IF handles[ptr].is_mutable # "Mutable"
    THEN [ ok |-> FALSE, c |-> NoHandle ]
    ELSE [ ok |-> TRUE, c |-> handles[ptr] ]

\* slice::from_raw_parts(data as *const T, nitems), from_raw_parts_mut
Slice(c, T, mut) ==
    [ data |-> c.data, ty |-> T, len |-> c.nitems, mut |-> mut ]

as_slice_unchecked(ptr, T) ==
    LET container == leak(ptr) IN
    IF ~container.ok
    THEN [ ok |-> FALSE, slice |-> NoSlice ]
    ELSE [ ok |-> TRUE, slice |-> Slice(container.c, T, FALSE) ]

as_slice(ptr, T) ==
    LET container == leak(ptr) IN
    IF ~container.ok
    THEN [ ok |-> FALSE, slice |-> NoSlice ]
    ELSE IF ~assert_dtype(T, container.c.dtype)
    THEN [ ok |-> FALSE, slice |-> NoSlice ]
    ELSE [ ok |-> TRUE, slice |-> Slice(container.c, T, FALSE) ]

as_slice_mut_of_any(ptr, T) ==
    LET container == leak(ptr) IN
    IF ~container.ok
    THEN [ ok |-> FALSE, slice |-> NoSlice ]
    ELSE [ ok |-> TRUE, slice |-> Slice(container.c, T, TRUE) ]

as_slice_mut(ptr, T) ==
    LET container == leak_mut(ptr) IN
    IF ~container.ok
    THEN [ ok |-> FALSE, slice |-> NoSlice ]
    ELSE IF container.c.is_mutable # "Mutable"
    THEN [ ok |-> FALSE, slice |-> NoSlice ]
    ELSE [ ok |-> TRUE, slice |-> Slice(container.c, T, TRUE) ]

\* Drop::drop(&mut self): the heap after it.  The buffer of an Owner is
\* rebuilt as a Vec<u8> of capacity * itemsize bytes and dropped, so it goes
\* back to the allocator with its size in bytes (and the alignment of u8).
drop_always(c, regs) ==
    dealloc(regs, c.data, c.capacity * c.itemsize)

drop(c, regs) ==
    IF c.is_owner = "Owner"
    THEN dealloc(regs, c.data, c.capacity * c.itemsize)
    ELSE regs

new_from_pointer_owning(ptr, nitems, dtype, is_mutable) ==
    [ nitems |-> nitems, capacity |-> nitems,
      itemsize |-> get_itemsize(dtype), dtype |-> dtype,
      is_owner |-> "Owner", is_mutable |-> is_mutable, data |-> ptr ]

new_from_pointer(ptr, nitems, dtype, is_mutable) ==
    [ nitems |-> nitems, capacity |-> nitems,
      itemsize |-> get_itemsize(dtype), dtype |-> dtype,
      is_owner |-> "NotOwner", is_mutable |-> is_mutable, data |-> ptr ]

\* whether a slice describes live memory of its own element type
Valid(slice, regs) ==
    /\ regs[slice.data] # NoRegion
    /\ regs[slice.data].state = "live"
    /\ regs[slice.data].ty = slice.ty
    /\ slice.len <= Len(regs[slice.data].elems)

\* the elements read through a valid slice
SliceElems(slice, regs) == SubSeq(regs[slice.data].elems, 1, slice.len)

----------------------------------------------------------------------------
(* The state after construction: nothing allocated, no call made. *)

Init ==
    /\ regions = [ r \in RegionIds |-> NoRegion ]
    /\ handles = [ h \in Slots |-> NoHandle ]
    /\ boxed = {}
    /\ vecs = {}
    /\ last = Call("init", NULL, "-", "ok", NoRet)

----------------------------------------------------------------------------
(* The caller's side: arrays, Vecs and writes through a mutable slice. *)

\* the caller builds an array of T
CallerArray(T, elems) ==
    /\ Running
    /\ FreshRegions # {}
    /\ regions' = [ regions EXCEPT
                      ![FreshRegion] = NewRegion("caller", T, elems, Len(elems)) ]
    /\ last' = Call("array", FreshRegion, T, "ok", NoRet)
    /\ UNCHANGED << handles, boxed, vecs >>

\* the caller builds a Vec<T> with `extra` reserved elements
VecNew(T, elems, extra) ==
    /\ Running
    /\ FreshRegions # {}
    /\ regions' = [ regions EXCEPT
                      ![FreshRegion] =
                          NewRegion("vec", T, elems, Len(elems) + extra) ]
    /\ vecs' = vecs \cup { Vec(FreshRegion, T, Len(elems), Len(elems) + extra) }
    /\ last' = Call("vec", FreshRegion, T, "ok", NoRet)
    /\ UNCHANGED << handles, boxed >>

\* the caller drops a Vec it holds: the Vec frees its buffer
VecDrop(v) ==
    /\ Running
    /\ v \in vecs
    /\ vecs' = vecs \ { v }
    /\ regions' = dealloc(regions, v.data, v.cap * get_size(v.ty))
    /\ last' = Call("vec_drop", v.data, v.ty, "ok", NoRet)
    /\ UNCHANGED << handles, boxed >>

\* the heaps a write with undefined behaviour can leave: a live region holds
\* other values, or nothing visible changed
Havoc ==
    { regions } \cup
    { [ regions EXCEPT ![r].elems = e ] :
        r \in LiveRegions, e \in SeqsUpTo(MaxLen) }

\* as_slice_mut::<T>(ptr)[i] = val
WriteSlice(ptr, T, i, val) ==
    /\ Running
    /\ ptr \in LiveSlots
    /\ LET res == as_slice_mut(ptr, T) IN
         /\ res.ok
         /\ i \in 1..res.slice.len
         /\ IF Valid(res.slice, regions)
            THEN /\ regions' = [ regions EXCEPT ![res.slice.data].elems[i] = val ]
                 /\ last' = Call("write", ptr, T, "ok", [ i |-> i, val |-> val ])
            ELSE \* the slice does not describe its region: it runs past its
                 \* end, has another element type, or the region is freed
                 /\ regions' \in { g \in Havoc :
                                     \A r \in LiveRegions :
                                       Len(g[r].elems) = Len(regions[r].elems) }
                 /\ last' = Call("write", ptr, T, "ub", [ i |-> i, val |-> val ])
    /\ UNCHANGED << handles, boxed, vecs >>

----------------------------------------------------------------------------
(* The operations of the container. *)

Store(c) == handles' = [ handles EXCEPT ![FreeSlot] = c ]

\* RustyDataContainer::from_slice(&region[..]) on an array of the caller or
\* on the elements of a Vec
FromSlice(r) ==
    /\ Running
    /\ Live(r)
    /\ FreeSlots # {}
    /\ Store(from_slice(regions[r].ty, r, Len(regions[r].elems)))
    /\ last' = Call("from_slice", FreeSlot, regions[r].ty, "ok", NoRet)
    /\ UNCHANGED << regions, boxed, vecs >>

FromSliceMut(r) ==
    /\ Running
    /\ Live(r)
    /\ FreeSlots # {}
    /\ Store(from_slice_mut(regions[r].ty, r, Len(regions[r].elems)))
    /\ last' = Call("from_slice_mut", FreeSlot, regions[r].ty, "ok", NoRet)
    /\ UNCHANGED << regions, boxed, vecs >>

\* RustyDataContainer::from_vec(v): the Vec is consumed
FromVec(v) ==
    /\ Running
    /\ v \in vecs
    /\ FreeSlots # {}
    /\ Store(from_vec(v))
    /\ vecs' = vecs \ { v }
    /\ last' = Call("from_vec", FreeSlot, v.ty, "ok", v)
    /\ UNCHANGED << regions, boxed >>

\* container.to_ptr(): the container moves into a Box
ToPtr(h) ==
    /\ Running
    /\ h \in LiveSlots \ boxed
    /\ boxed' = boxed \cup { h }
    /\ last' = Call("to_ptr", h, "-", "ok", NoRet)
    /\ UNCHANGED << regions, handles, vecs >>

\* container.to_vec::<T>(): consumes the container; self is dropped when the
\* call returns and when an assertion unwinds
ToVec(h, T) ==
    /\ Running
    /\ h \in LiveSlots \ boxed
    /\ LET res == to_vec(handles[h], T) IN
         /\ handles' = [ handles EXCEPT ![h] = NoHandle ]
         /\ regions' = drop(res.self, regions)
         /\ vecs' = IF res.ok THEN vecs \cup { res.vec } ELSE vecs
         /\ last' = Call("to_vec", h, T, IF res.ok THEN "ok" ELSE "panic",
                         [ self |-> res.self, vec |-> res.vec ])
    /\ UNCHANGED boxed

\* a container held by value goes out of scope
DropValue(h) ==
    /\ Running
    /\ h \in LiveSlots \ boxed
    /\ handles' = [ handles EXCEPT ![h] = NoHandle ]
    /\ regions' = drop(handles[h], regions)
    /\ last' = Call("drop", h, "-", "ok", [ self |-> handles[h] ])
    /\ UNCHANGED << boxed, vecs >>

\* the pointers a call may be given: NULL, or a pointer to a live container
Pointers == { NULL } \cup LiveSlots

Leak(ptr) ==
    /\ Running
    /\ ptr \in Pointers
    /\ last' = Call("leak", ptr, "-", IF leak(ptr).ok THEN "ok" ELSE "panic",
                    leak(ptr).c)
    /\ UNCHANGED << regions, handles, boxed, vecs >>

LeakMut(ptr) ==
    /\ Running
    /\ ptr \in Pointers
    /\ last' = Call("leak_mut", ptr, "-",
                    IF leak_mut(ptr).ok THEN "ok" ELSE "panic", leak_mut(ptr).c)
    /\ UNCHANGED << regions, handles, boxed, vecs >>

AsSlice(ptr, T) ==
    /\ Running
    /\ ptr \in Pointers
    /\ LET res == as_slice(ptr, T) IN
         last' = Call("as_slice", ptr, T, IF res.ok THEN "ok" ELSE "panic",
                      res.slice)
    /\ UNCHANGED << regions, handles, boxed, vecs >>

AsSliceMut(ptr, T) ==
    /\ Running
    /\ ptr \in Pointers
    /\ LET res == as_slice_mut(ptr, T) IN
         last' = Call("as_slice_mut", ptr, T, IF res.ok THEN "ok" ELSE "panic",
                      res.slice)
    /\ UNCHANGED << regions, handles, boxed, vecs >>

\* rusty_data_container_destroy(ptr): Box::from_raw(ptr) is dropped, which
\* runs Drop::drop on the container and frees the Box.  Nothing tests ptr:
\* on NULL the drop reads is_owner through the null pointer, which is
\* undefined behaviour; the process is killed by the fault or goes on.
Destroy(ptr) ==
    /\ Running
    /\ ptr \in { NULL } \cup boxed
    /\ IF ptr = NULL
       THEN /\ \E outcome \in { "crash", "ok" } :
                 last' = Call("destroy", NULL, "-", outcome, NoRet)
            /\ UNCHANGED << regions, handles, boxed >>
       ELSE /\ handles' = [ handles EXCEPT ![ptr] = NoHandle ]
            /\ boxed' = boxed \ { ptr }
            /\ regions' = drop(handles[ptr], regions)
            /\ last' = Call("destroy", ptr, "-", "ok", [ self |-> handles[ptr] ])
    /\ UNCHANGED vecs

\* rusty_data_container_new_<T>(nitems):
\* RustyDataContainer::from_vec(vec![0 as T; nitems]).to_ptr()
NewTyped(T, nitems) ==
    /\ Running
    /\ FreshRegions # {}
    /\ FreeSlots # {}
    /\ regions' = [ regions EXCEPT
                      ![FreshRegion] = NewRegion("vec", T, Zeros(nitems), nitems) ]
    /\ Store(from_vec(Vec(FreshRegion, T, nitems, nitems)))
    /\ boxed' = boxed \cup { FreeSlot }
    /\ last' = Call("new", FreeSlot, T, "ok", NoRet)
    /\ UNCHANGED vecs

\* the rusty_data_container_get_* functions: a panic of leak(NULL) cannot
\* unwind out of an extern "C" function and aborts the process
Get(op, ptr, ret) ==
    /\ Running
    /\ ptr \in Pointers
    /\ last' = IF leak(ptr).ok
               THEN Call(op, ptr, "-", "ok", ret)
               ELSE Call(op, ptr, "-", "abort", NoRet)
    /\ UNCHANGED << regions, handles, boxed, vecs >>

GetNitems(ptr) == Get("get_nitems", ptr, leak(ptr).c.nitems)

GetItemsize(ptr) == Get("get_itemsize", ptr, leak(ptr).c.itemsize)

GetDtype(ptr) == Get("get_dtype", ptr, leak(ptr).c.dtype)

GetIsOwner(ptr) == Get("get_is_owner", ptr, leak(ptr).c.is_owner)

GetIsMutable(ptr) == Get("get_is_mutable", ptr, leak(ptr).c.is_mutable)

GetData(ptr) == Get("get_data", ptr, leak(ptr).c.data)

\* new_from_pointer(ptr, nitems, dtype, is_mutable) over the first nitems
\* elements of a live region, described with the region's element type
NewFromPointer(r, nitems, is_mutable) ==
    /\ Running
    /\ Live(r)
    /\ nitems \in 0..Len(regions[r].elems)
    /\ FreeSlots # {}
    /\ Store(new_from_pointer(r, nitems, get_dtype(regions[r].ty), is_mutable))
    /\ boxed' = boxed \cup { FreeSlot }
    /\ last' = Call("new_from_pointer", FreeSlot, regions[r].ty, "ok", NoRet)
    /\ UNCHANGED << regions, vecs >>

----------------------------------------------------------------------------

Next ==
    \/ \E T \in Types, elems \in SeqsUpTo(MaxLen) : CallerArray(T, elems)
    \/ \E T \in Types, elems \in SeqsUpTo(MaxLen), extra \in 0..MaxSpare :
           VecNew(T, elems, extra)
    \/ \E v \in vecs : VecDrop(v)
    \/ \E ptr \in Slots, T \in Types, i \in 1..MaxLen, val \in Values :
           WriteSlice(ptr, T, i, val)
    \/ \E r \in RegionIds : FromSlice(r)
    \/ \E r \in RegionIds : FromSliceMut(r)
    \/ \E v \in vecs : FromVec(v)
    \/ \E h \in Slots : ToPtr(h)
    \/ \E h \in Slots, T \in Types : ToVec(h, T)
    \/ \E h \in Slots : DropValue(h)
    \/ \E ptr \in Pointers : Leak(ptr)
    \/ \E ptr \in Pointers : LeakMut(ptr)
    \/ \E ptr \in Pointers, T \in Types : AsSlice(ptr, T)
    \/ \E ptr \in Pointers, T \in Types : AsSliceMut(ptr, T)
    \/ \E ptr \in Pointers : Destroy(ptr)
    \/ \E T \in Types, nitems \in 0..MaxLen : NewTyped(T, nitems)
    \/ \E ptr \in Pointers : GetNitems(ptr)
    \/ \E ptr \in Pointers : GetItemsize(ptr)
    \/ \E ptr \in Pointers : GetDtype(ptr)
    \/ \E ptr \in Pointers : GetIsOwner(ptr)
    \/ \E ptr \in Pointers : GetIsMutable(ptr)
    \/ \E ptr \in Pointers : GetData(ptr)
    \/ \E r \in RegionIds, nitems \in 0..MaxLen, m \in MUTABILITY :
           NewFromPointer(r, nitems, m)

Spec == Init /\ [][Next]_vars

----------------------------------------------------------------------------
(* Properties. *)

\* the containers that own the region r, and the Vecs that own it
OwnersOf(r) == { h \in LiveSlots : handles[h].is_owner = "Owner" /\ handles[h].data = r }

VecsOf(r) == { v \in vecs : v.data = r }

\* the step is the call `op` on the live container in slot h
StepOn(ops, h) ==
    /\ handles[h] # NoHandle
    /\ last'.op \in ops
    /\ last'.ptr = h

\* C1: a NotOwner container that is destroyed, or dropped by value, leaves
\* the region it refers to as it was: still allocated, never freed, holding
\* the same elements.
C1_NotOwnerDestroyKeepsRegion ==
    [][ \A h \in Slots :
          ( /\ StepOn({ "destroy", "drop" }, h)
            /\ handles[h].is_owner = "NotOwner" )
          => /\ handles'[h] = NoHandle
             /\ regions' = regions ]_vars

C1_Witness ==
    /\ last.op = "destroy"
    /\ last.ptr # NULL
    /\ last.ret.self.is_owner = "NotOwner"
    /\ regions[last.ret.self.data].kind = "caller"
    /\ Live(last.ret.self.data)
    /\ regions[last.ret.self.data].elems = << 1 >>

\* every buffer of a Vec has exactly one owner (a Vec or an Owner container)
\* while it is allocated and none once it is freed; it is freed at most
\* once, with the size it was allocated with
SingleOwner ==
    \A r \in RegionIds :
      (regions[r] # NoRegion /\ regions[r].kind = "vec") =>
        /\ regions[r].frees <= 1
        /\ regions[r].sized
        /\ regions[r].state = "live" =>
             Cardinality(OwnersOf(r)) + Cardinality(VecsOf(r)) = 1
        /\ regions[r].state = "released" =>
             /\ regions[r].frees = 1
             /\ OwnersOf(r) = {} /\ VecsOf(r) = {}

\* C2: the buffer of an owning container is released exactly once: destroy
\* (or a drop by value) of an Owner container frees it, a successful to_vec
\* hands it to the returned Vec and the drop of the consumed container frees
\* nothing; no buffer is freed twice or left without an owner.
C2_OwnedRegionReleasedOnce ==
    /\ []SingleOwner
    /\ [][ \A h \in Slots :
             /\ ( /\ StepOn({ "destroy", "drop" }, h)
                  /\ handles[h].is_owner = "Owner" )
                => /\ regions[handles[h].data].frees = 0
                   /\ regions'[handles[h].data].frees = 1
                   /\ regions'[handles[h].data].state = "released"
             /\ ( /\ StepOn({ "to_vec" }, h)
                  /\ last'.outcome = "ok" )
                => /\ regions' = regions
                   /\ Live(handles[h].data)
                   /\ last'.ret.vec \in vecs'
                   /\ last'.ret.vec.data = handles[h].data ]_vars

C2_Witness ==
    /\ last.op = "to_vec"
    /\ last.outcome = "ok"
    /\ Live(last.ret.vec.data)
    /\ regions[last.ret.vec.data].frees = 0
    /\ last.ret.vec \in vecs

\* C3: as_slice::<T> and to_vec::<T> on a container whose dtype is not the
\* tag of T panic and return no slice and no Vec; as_slice::<T> succeeds
\* when T is the container's type, and to_vec::<T> then fails only on the
\* ownership assertion.
C3_TypeMismatchRejected ==
    /\ (last.op = "as_slice" /\ last.ptr # NULL) =>
         /\ last.outcome = "ok" <=> handles[last.ptr].dtype = get_dtype(last.ty)
         /\ last.outcome = "ok" => last.ret = Slice(handles[last.ptr], last.ty, FALSE)
         /\ last.outcome # "ok" => last.outcome = "panic" /\ last.ret = NoSlice
    /\ last.op = "to_vec" =>
         /\ last.ret.self.dtype # get_dtype(last.ty) =>
              /\ last.outcome = "panic"
              /\ last.ret.vec = NoVec
         /\ ( /\ last.ret.self.dtype = get_dtype(last.ty)
              /\ last.outcome = "panic" ) => last.ret.self.is_owner = "NotOwner"

C3_Witness ==
    /\ last.op = "as_slice"
    /\ last.ptr # NULL
    /\ last.outcome = "panic"
    /\ handles[last.ptr].dtype # get_dtype(last.ty)
    /\ get_itemsize(handles[last.ptr].dtype) = get_size(last.ty)

\* C4: as_slice_mut::<T> on a Mutable container whose dtype is not the tag
\* of T panics and returns no mutable slice.
C4_MutViewTypeChecked ==
    ( /\ last.op = "as_slice_mut"
      /\ last.ptr # NULL
      /\ handles[last.ptr].is_mutable = "Mutable"
      /\ handles[last.ptr].dtype # get_dtype(last.ty) )
    => /\ last.outcome = "panic"
       /\ last.ret = NoSlice

\* C5: as_slice_mut and leak_mut on a NotMutable container (from_slice, or
\* new_from_pointer with NotMutable) panic and give no mutable view; on a
\* container made by from_slice_mut or from_vec, as_slice_mut with the
\* container's element type succeeds, and a write through the slice is read
\* back by as_slice of the same container.
C5_MutabilityRespected ==
    /\ ( /\ last.op \in { "as_slice_mut", "leak_mut" }
         /\ last.ptr # NULL
         /\ handles[last.ptr].is_mutable = "NotMutable" )
       => /\ last.outcome = "panic"
          /\ last.ret \in { NoSlice, NoHandle }
    /\ ( /\ last.op = "as_slice_mut"
         /\ last.ptr # NULL
         /\ handles[last.ptr].is_mutable = "Mutable"
         /\ handles[last.ptr].dtype = get_dtype(last.ty) )
       => /\ last.outcome = "ok"
          /\ last.ret = Slice(handles[last.ptr], last.ty, TRUE)
    /\ last.op = "from_slice" =>
         \A T \in Types : ~as_slice_mut(last.ptr, T).ok /\ ~leak_mut(last.ptr).ok
    /\ last.op \in { "from_slice_mut", "from_vec" } =>
         as_slice_mut(last.ptr, last.ty).ok /\ leak_mut(last.ptr).ok
    /\ (last.op = "write" /\ last.outcome = "ok") =>
         /\ as_slice(last.ptr, last.ty).ok
         /\ Valid(as_slice(last.ptr, last.ty).slice, regions)
         /\ SliceElems(as_slice(last.ptr, last.ty).slice, regions)[last.ret.i]
              = last.ret.val

C5_Witness ==
    /\ last.op = "write"
    /\ last.outcome = "ok"
    /\ last.ret.val = 1
    /\ handles[last.ptr].is_owner = "NotOwner"
    /\ SliceElems(as_slice(last.ptr, last.ty).slice, regions) = << 1 >>

\* C6: rusty_data_container_destroy(NULL) completes without error, frees
\* nothing and leaves every container and region as it was.
C6_DestroyNullIsNoOp ==
    [][ (last'.op = "destroy" /\ last'.ptr = NULL)
        => /\ last'.outcome = "ok"
           /\ UNCHANGED << regions, handles, boxed, vecs >> ]_vars

\* C7: from_vec(v) stores v.len() in nitems and v.capacity() in capacity,
\* and to_vec of the container gives back v: the same buffer, element type,
\* length and capacity, over elements the conversion leaves untouched.
C7_VecRoundTrip ==
    /\ [] /\ \A v \in vecs : /\ to_vec(from_vec(v), v.ty).ok
                             /\ to_vec(from_vec(v), v.ty).vec = v
          /\ last.op = "from_vec" =>
               /\ handles[last.ptr].nitems = last.ret.len
               /\ handles[last.ptr].capacity = last.ret.cap
               /\ handles[last.ptr].data = last.ret.data
          /\ (last.op = "to_vec" /\ last.outcome = "ok") =>
               /\ last.ret.vec.ty = regions[last.ret.vec.data].ty
               /\ last.ret.vec.len = Len(regions[last.ret.vec.data].elems)
               /\ last.ret.vec.cap = regions[last.ret.vec.data].cap
    /\ [][ \A h \in Slots :
             (StepOn({ "to_vec" }, h) /\ last'.outcome = "ok")
             => /\ last'.ret.vec.len = handles[h].nitems
                /\ last'.ret.vec.cap = handles[h].capacity
                /\ regions'[handles[h].data].elems = regions[handles[h].data].elems
         ]_vars

C7_Witness ==
    /\ last.op = "to_vec"
    /\ last.outcome = "ok"
    /\ last.ret.vec.len = 1
    /\ last.ret.vec.cap = 2
    /\ regions[last.ret.vec.data].elems = << 1 >>

\* C8: to_vec::<T> on a NotOwner container panics for every T, also the
\* container's own element type: no Vec is returned, and the region is
\* neither freed nor handed over.
C8_ToVecNeedsOwner ==
    [][ \A h \in Slots :
          ( /\ StepOn({ "to_vec" }, h)
            /\ handles[h].is_owner = "NotOwner" )
          => /\ last'.outcome = "panic"
             /\ last'.ret.vec = NoVec
             /\ vecs' = vecs
             /\ regions' = regions ]_vars

C8_Witness ==
    /\ last.op = "to_vec"
    /\ last.outcome = "panic"
    /\ last.ret.self.is_owner = "NotOwner"
    /\ last.ret.self.dtype = get_dtype(last.ty)
    /\ Live(last.ret.self.data)

\* C9: an Owner container describes the buffer of a consumed Vec and is
\* Mutable; from_slice, from_slice_mut and new_from_pointer give NotOwner
\* containers whose capacity is their nitems; no caller array is owned.
C9_OwnerOnlyFromVec ==
    /\ \A h \in LiveSlots :
         /\ handles[h].is_owner = "Owner" =>
              /\ regions[handles[h].data].kind = "vec"
              /\ handles[h].is_mutable = "Mutable"
              /\ VecsOf(handles[h].data) = {}
         /\ handles[h].is_owner = "NotOwner" =>
              handles[h].capacity = handles[h].nitems
    /\ last.op \in { "from_slice", "from_slice_mut", "new_from_pointer" } =>
         handles[last.ptr].is_owner = "NotOwner"
    /\ last.op \in { "from_vec", "new" } =>
         handles[last.ptr].is_owner = "Owner"

C9_Witness ==
    /\ last.op = "new_from_pointer"
    /\ handles[last.ptr].is_owner = "NotOwner"
    /\ regions[handles[last.ptr].data].kind = "vec"
    /\ regions[handles[last.ptr].data].cap > handles[last.ptr].capacity
    /\ OwnersOf(handles[last.ptr].data) # {}

ViewOps ==
    { "get_nitems", "get_itemsize", "get_dtype", "get_is_owner",
      "get_is_mutable", "get_data", "leak", "leak_mut", "as_slice",
      "as_slice_mut" }

\* C10 as stated: under the accessors, leak, leak_mut, as_slice,
\* as_slice_mut and to_vec every field of the container keeps the value the
\* constructor gave it, and the accessors and views leave it alive.
C10_MetadataNeverChanges ==
    [][ \A h \in Slots :
          /\ StepOn(ViewOps, h) => handles'[h] = handles[h]
          /\ StepOn({ "to_vec" }, h) => last'.ret.self = handles[h] ]_vars

\* C10 as amended: the accessors, leak, leak_mut, as_slice and as_slice_mut
\* leave every field and the container alive; to_vec consumes the container
\* and, when it succeeds, has set is_owner to NotOwner by the time the
\* container is dropped, the other fields being as the constructor set them.
C10_MetadataChangesOnlyInToVec ==
    [][ \A h \in Slots :
          /\ StepOn(ViewOps, h) => handles'[h] = handles[h]
          /\ StepOn({ "to_vec" }, h) =>
               /\ handles'[h] = NoHandle
               /\ last'.ret.self =
                    IF last'.outcome = "ok"
                    THEN [ handles[h] EXCEPT !.is_owner = "NotOwner" ]
                    ELSE handles[h] ]_vars

C10_Witness ==
    /\ last.op = "to_vec"
    /\ last.outcome = "ok"
    /\ last.ret.self.is_owner = "NotOwner"
    /\ last.ret.self.nitems = 1
    /\ last.ret.self.capacity = 2

====
